---- MODULE Spec2Model ----
(***************************************************************************)
(* Model of the micro-bpf benchmark driver (src/micro-bpf/src/lib.rs).     *)
(*                                                                         *)
(* main() is a single sequential thread; pc is its position.  The build    *)
(* features `jit` and `libud` select, at build time, the code that is      *)
(* compiled in, so they are fixed by Init and never change.  The rbpf      *)
(* engine, the ztimer clock and the serial console are external: an engine *)
(* call either succeeds or fails, a program returns some result code, and  *)
(* a timed step takes some number of microseconds.                         *)
(*                                                                         *)
(* Console output is kept as the list of finished lines (out) and the      *)
(* line being written (cur).  A line is a sequence of tokens: Num(n) is    *)
(* what print!("{};", n) writes (the decimal number followed by ';') and   *)
(* Text(s) is a piece of text without ';'.                                 *)
(***************************************************************************)
EXTENDS Integers, Sequences, FiniteSets

VARIABLES jit, libud, pc, iterations, i, out, cur, vm, jitted_fn,
          jit_memory_buff, helpers_map, mem, elapsed, load_program_duration,
          execution_duration, res, code, callUs, calls, builtAt, args,
          panic_msg

vars == <<jit, libud, pc, iterations, i, out, cur, vm, jitted_fn,
          jit_memory_buff, helpers_map, mem, elapsed, load_program_duration,
          execution_duration, res, code, callUs, calls, builtAt, args,
          panic_msg>>

----------------------------------------------------------------------------
(* Bounds of the model *)

MaxIterations == 2
MaxStrLen == 2
MaxOpUs == 1
MaxCode == 3

----------------------------------------------------------------------------
(* Constants of the program *)

\* Duration::from_secs(3) on the microsecond clock
SleepUs == 3 * 1000000

\* core::mem::size_of::<Context>(): i64 arrays a[20][20], b[20], x[20], y[100]
ContextSize == 8 * (20 * 20 + 20 + 20 + 100)

\* crate::middleware::ALL_HELPERS, a static list of (id, function) entries
ALL_HELPERS ==
    << [id |-> 1, function |-> "bpf_printf"],
       [id |-> 2, function |-> "bpf_store_global"],
       [id |-> 3, function |-> "bpf_fetch_global"] >>

----------------------------------------------------------------------------
(* Console output *)

Num(n) == [k |-> "num", n |-> n, s |-> ""]
Text(s) == [k |-> "text", n |-> 0, s |-> s]

BeginLine == << Text("=== Benchmark Begins ===") >>
HeaderLine == << Text("iteration;init_runtime_us;load_program_us;execution_time_us;correct") >>
EndLine == << Text("=== Benchmark End ===") >>

\* bool::to_string
BoolToString(b) == IF b THEN "true" ELSE "false"

\* variant: any non-zero code counts as success
CorrectMut(c) == c >= 1
\* the comparison `== 1` applied to the returned result code
Correct(c) == c = 1

----------------------------------------------------------------------------
(* ITERATIONS_STR.parse::<usize>(): an optional leading '+', then one or     *)
(* more decimal digits; anything else is an error (-1 here).                 *)

Digits == <<"0", "1", "2", "3", "4", "5", "6", "7", "8", "9">>
Chars == {Digits[d] : d \in 1..10} \cup {"+", "-", "x"}

DigitVal(c) == IF \E d \in 1..10 : Digits[d] = c
               THEN (CHOOSE d \in 1..10 : Digits[d] = c) - 1
               ELSE -1

RECURSIVE ParseDigits(_, _)
ParseDigits(s, acc) ==
    IF s = <<>> THEN acc
    ELSE IF DigitVal(Head(s)) < 0 THEN -1
    ELSE ParseDigits(Tail(s), acc * 10 + DigitVal(Head(s)))

ParseUsize(s) ==
    IF s = <<>> THEN -1
    ELSE IF Len(s) = 1 /\ Head(s) \in {"+", "-"} THEN -1
    ELSE IF Head(s) = "+" THEN ParseDigits(Tail(s), 0)
    ELSE ParseDigits(s, 0)

Strs == UNION {[1..n -> Chars] : n \in 0..MaxStrLen}
IterationStrs == {s \in Strs : ParseUsize(s) <= MaxIterations}

----------------------------------------------------------------------------
(* Helper table *)

\* the loop `for h in ALL_HELPERS.iter() { helpers_map.insert(h.id, h.function) }`
RECURSIVE InsertAll(_, _)
InsertAll(m, hs) ==
    IF hs = <<>> THEN m
    ELSE InsertAll({e \in m : e[1] # Head(hs).id} \cup {<<Head(hs).id, Head(hs).function>>},
                   Tail(hs))

\* register_all(vm): every helper of ALL_HELPERS is registered into the VM
RegisterAll(v) == [v EXCEPT !.helpers = InsertAll(v.helpers, ALL_HELPERS)]

NoVm == [some |-> FALSE, helpers |-> {}, verified |-> FALSE]
NullArgs == [mem_ptr |-> "null", mem_len |-> 0, mbuff_ptr |-> "null", mbuff_len |-> 0]
NoArgs == [mem_ptr |-> "none", mem_len |-> 0, mbuff_ptr |-> "none", mbuff_len |-> 0]

----------------------------------------------------------------------------
Init ==
    /\ jit \in BOOLEAN
    /\ libud \in BOOLEAN
    /\ pc = "start"
    /\ iterations = 0
    /\ i = 0
    /\ out = <<>>
    /\ cur = <<>>
    /\ vm = NoVm
    /\ jitted_fn = FALSE
    /\ jit_memory_buff = FALSE
    /\ helpers_map = {}
    /\ mem = [ptr |-> "null", len |-> 0]
    /\ elapsed = 0
    /\ load_program_duration = 0
    /\ execution_duration = 0
    /\ res = FALSE
    /\ code = 0
    /\ callUs = 0
    /\ calls = <<>>
    /\ builtAt = <<>>
    /\ args = NoArgs
    /\ panic_msg = ""

\* a failed expect(): the thread panics and main never resumes
Panic(msg) ==
    /\ pc' = "panicked"
    /\ panic_msg' = msg

\* result codes a program may return (u64 interpreted, u32 compiled)
Codes == (0..MaxCode) \cup {2^16 - 1}
OpTimes == 0..MaxOpUs

\* print!(..) of one token; println!(..) of one token, which ends the line
Write(tok) == /\ cur' = Append(cur, tok)
              /\ out' = out
WriteLine(tok) == /\ out' = Append(out, Append(cur, tok))
                  /\ cur' = <<>>

----------------------------------------------------------------------------
(* lib.rs 61-69: start of main *)

ParseIterations ==
    /\ pc = "start"
    /\ \E s \in IterationStrs :
          /\ ParseUsize(s) >= 0
          /\ iterations' = ParseUsize(s)
    /\ pc' = "banner"
    /\ UNCHANGED <<jit, libud, i, out, cur, vm, jitted_fn, jit_memory_buff,
                   helpers_map, mem, elapsed, load_program_duration,
                   execution_duration, res, code, callUs, calls, builtAt, args,
                   panic_msg>>

ParseFail ==
    /\ pc = "start"
    /\ \E s \in IterationStrs : ParseUsize(s) < 0
    /\ Panic("Failed to parse ITERATIONS")
    /\ UNCHANGED <<jit, libud, iterations, i, out, cur, vm, jitted_fn,
                   jit_memory_buff, helpers_map, mem, elapsed,
                   load_program_duration, execution_duration, res, code, callUs,
                   calls, builtAt, args>>

PrintBanner ==
    /\ pc = "banner"
    /\ out' = out \o << BeginLine, HeaderLine >>
    /\ pc' = "loop"
    /\ UNCHANGED <<jit, libud, iterations, i, cur, vm, jitted_fn, jit_memory_buff,
                   helpers_map, mem, elapsed, load_program_duration,
                   execution_duration, res, code, callUs, calls, builtAt, args,
                   panic_msg>>

----------------------------------------------------------------------------
(* lib.rs 71-97: head of one iteration *)

\* the byte region handed to the program: the Context under libud, else empty
MemOf(ud) == IF ud THEN [ptr |-> "ctx", len |-> ContextSize]
             ELSE [ptr |-> "empty", len |-> 0]

LoopNext ==
    /\ pc = "loop"
    /\ i < iterations
    /\ cur' = cur \o << Num(i), Num(0) >>
    /\ vm' = NoVm
    /\ jitted_fn' = FALSE
    /\ mem' = MemOf(libud)
    /\ elapsed' = 0
    /\ load_program_duration' = 0
    /\ execution_duration' = 0
    /\ res' = FALSE
    /\ code' = 0
    /\ callUs' = 0
    /\ calls' = <<>>
    /\ args' = NoArgs
    /\ pc' = IF jit THEN "jit_setup" ELSE "vm_new"
    /\ UNCHANGED <<jit, libud, iterations, i, out, jit_memory_buff, helpers_map,
                   builtAt, panic_msg>>

LoopEnd ==
    /\ pc = "loop"
    /\ i >= iterations
    /\ WriteLine(Text("=== Benchmark End ==="))
    /\ pc' = "done"
    /\ UNCHANGED <<jit, libud, iterations, i, vm, jitted_fn, jit_memory_buff,
                   helpers_map, mem, elapsed, load_program_duration,
                   execution_duration, res, code, callUs, calls, builtAt, args,
                   panic_msg>>

----------------------------------------------------------------------------
(* lib.rs 101-109: preparation, interpreted *)

Call(op, ok) == calls' = Append(calls, [op |-> op, ok |-> ok])

InterpNew ==
    /\ pc = "vm_new"
    /\ vm' = [some |-> TRUE, helpers |-> {}, verified |-> FALSE]
    /\ Call("new", TRUE)
    /\ \E d \in OpTimes : elapsed' = elapsed + d
    /\ pc' = "vm_register"
    /\ UNCHANGED <<jit, libud, iterations, i, out, cur, jitted_fn, jit_memory_buff,
                   helpers_map, mem, load_program_duration, execution_duration,
                   res, code, callUs, builtAt, args, panic_msg>>

InterpNewFail ==
    /\ pc = "vm_new"
    /\ Call("new", FALSE)
    /\ Panic("failed to load program")
    /\ UNCHANGED <<jit, libud, iterations, i, out, cur, vm, jitted_fn,
                   jit_memory_buff, helpers_map, mem, elapsed,
                   load_program_duration, execution_duration, res, code, callUs,
                   builtAt, args>>

InterpRegister ==
    /\ pc = "vm_register"
    /\ vm.some
    /\ vm' = RegisterAll(vm)
    /\ Call("register_all", TRUE)
    /\ pc' = "vm_verify"
    /\ UNCHANGED <<jit, libud, iterations, i, out, cur, jitted_fn, jit_memory_buff,
                   helpers_map, mem, elapsed, load_program_duration,
                   execution_duration, res, code, callUs, builtAt, args, panic_msg>>

InterpVerify ==
    /\ pc = "vm_verify"
    /\ vm.some
    /\ vm' = [vm EXCEPT !.verified = TRUE]
    /\ Call("verify_loaded_program", TRUE)
    /\ pc' = "load_timed"
    /\ UNCHANGED <<jit, libud, iterations, i, out, cur, jitted_fn, jit_memory_buff,
                   helpers_map, mem, elapsed, load_program_duration,
                   execution_duration, res, code, callUs, builtAt, args, panic_msg>>

\* variant: a rejected program is not treated as fatal
InterpVerifyFailMut ==
    /\ pc = "vm_verify"
    /\ vm.some
    /\ Call("verify_loaded_program", FALSE)
    /\ pc' = "load_timed"
    /\ UNCHANGED <<jit, libud, iterations, i, out, cur, vm, jitted_fn,
                   jit_memory_buff, helpers_map, mem, elapsed,
                   load_program_duration, execution_duration, res, code, callUs,
                   builtAt, args, panic_msg>>
InterpVerifyFail ==
    /\ pc = "vm_verify"
    /\ vm.some
    /\ Call("verify_loaded_program", FALSE)
    /\ Panic("program verification failed")
    /\ UNCHANGED <<jit, libud, iterations, i, out, cur, vm, jitted_fn,
                   jit_memory_buff, helpers_map, mem, elapsed,
                   load_program_duration, execution_duration, res, code, callUs,
                   builtAt, args>>

----------------------------------------------------------------------------
(* lib.rs 111-137: preparation, compiled *)

\* 115-125: stage the program, build helpers_map, allocate the buffer, announce
\* variant: the mapping is built in the first iteration only
JitSetupMut ==
    /\ pc = "jit_setup"
    /\ helpers_map' = IF i = 0 THEN InsertAll({}, ALL_HELPERS) ELSE helpers_map
    /\ builtAt' = IF i = 0 THEN Append(builtAt, i) ELSE builtAt
    /\ jit_memory_buff' = TRUE
    /\ WriteLine(Text("JIT compiling..."))
    /\ pc' = "jit_compile"
    /\ UNCHANGED <<jit, libud, iterations, i, vm, jitted_fn, mem, elapsed,
                   load_program_duration, execution_duration, res, code, callUs,
                   calls, args, panic_msg>>
JitSetup ==
    /\ pc = "jit_setup"
    /\ helpers_map' = InsertAll({}, ALL_HELPERS)
    /\ builtAt' = Append(builtAt, i)
    /\ jit_memory_buff' = TRUE
    /\ WriteLine(Text("JIT compiling..."))
    /\ pc' = "jit_compile"
    /\ UNCHANGED <<jit, libud, iterations, i, vm, jitted_fn, mem, elapsed,
                   load_program_duration, execution_duration, res, code, callUs,
                   calls, args, panic_msg>>

\* 127-136: compile into the buffer, take the function pointer, announce
JitCompile ==
    /\ pc = "jit_compile"
    /\ Call("JitMemory::new", TRUE)
    /\ jitted_fn' = TRUE
    /\ \E d \in OpTimes : elapsed' = elapsed + d
    /\ WriteLine(Text("JIT compilation done."))
    /\ pc' = "jit_load_end"
    /\ UNCHANGED <<jit, libud, iterations, i, vm, jit_memory_buff, helpers_map,
                   mem, load_program_duration, execution_duration, res, code,
                   callUs, builtAt, args, panic_msg>>

JitCompileFail ==
    /\ pc = "jit_compile"
    /\ Call("JitMemory::new", FALSE)
    /\ Panic("Failed jit compile")
    /\ UNCHANGED <<jit, libud, iterations, i, out, cur, vm, jitted_fn,
                   jit_memory_buff, helpers_map, mem, elapsed,
                   load_program_duration, execution_duration, res, code, callUs,
                   builtAt, args>>

\* 137: the block ends; prog_vec, helpers_map and jit_memory_buff are dropped
JitLoadEnd ==
    /\ pc = "jit_load_end"
    /\ helpers_map' = {}
    /\ jit_memory_buff' = FALSE
    /\ pc' = "load_timed"
    /\ UNCHANGED <<jit, libud, iterations, i, out, cur, vm, jitted_fn, mem,
                   elapsed, load_program_duration, execution_duration, res, code,
                   callUs, calls, builtAt, args, panic_msg>>

----------------------------------------------------------------------------
(* lib.rs 99-100, 139-141: the preparation is timed and its duration printed *)

\* variant: the load duration is measured but not written
LoadTimedMut ==
    /\ pc = "load_timed"
    /\ load_program_duration' = elapsed
    /\ elapsed' = 0
    /\ pc' = IF jit THEN "jit_announce" ELSE "vm_execute"
    /\ UNCHANGED <<jit, libud, iterations, i, out, cur, vm, jitted_fn,
                   jit_memory_buff, helpers_map, mem, execution_duration, res,
                   code, callUs, calls, builtAt, args, panic_msg>>
LoadTimed ==
    /\ pc = "load_timed"
    /\ load_program_duration' = elapsed
    /\ Write(Num(elapsed))
    /\ elapsed' = 0
    /\ pc' = IF jit THEN "jit_announce" ELSE "vm_execute"
    /\ UNCHANGED <<jit, libud, iterations, i, vm, jitted_fn, jit_memory_buff,
                   helpers_map, mem, execution_duration, res, code, callUs, calls,
                   builtAt, args, panic_msg>>

LoadClockFail ==
    /\ pc = "load_timed"
    /\ Panic("failed to measure load program time")
    /\ UNCHANGED <<jit, libud, iterations, i, out, cur, vm, jitted_fn,
                   jit_memory_buff, helpers_map, mem, elapsed,
                   load_program_duration, execution_duration, res, code, callUs,
                   calls, builtAt, args>>

----------------------------------------------------------------------------
(* lib.rs 143-157: execution, interpreted *)

InterpExecute ==
    /\ pc = "vm_execute"
    /\ vm.some
    /\ Call("execute_program", TRUE)
    /\ \E c \in Codes :
          /\ code' = c
          /\ res' = Correct(c)
    /\ \E d \in OpTimes :
          /\ callUs' = d
          /\ elapsed' = elapsed + d
    /\ args' = [mem_ptr |-> mem.ptr, mem_len |-> mem.len,
                mbuff_ptr |-> "empty", mbuff_len |-> 0]
    /\ vm' = NoVm
    /\ pc' = "exec_timed"
    /\ UNCHANGED <<jit, libud, iterations, i, out, cur, jitted_fn, jit_memory_buff,
                   helpers_map, mem, load_program_duration, execution_duration,
                   builtAt, panic_msg>>

\* variant: a failed execution is noted and the iteration goes on
InterpExecuteFailMut ==
    /\ pc = "vm_execute"
    /\ vm.some
    /\ Call("execute_program", FALSE)
    /\ panic_msg' = "programm execution failed"
    /\ pc' = "exec_timed"
    /\ UNCHANGED <<jit, libud, iterations, i, out, cur, vm, jitted_fn,
                   jit_memory_buff, helpers_map, mem, elapsed,
                   load_program_duration, execution_duration, res, code, callUs,
                   builtAt, args>>
InterpExecuteFail ==
    /\ pc = "vm_execute"
    /\ vm.some
    /\ Call("execute_program", FALSE)
    /\ Panic("programm execution failed")
    /\ UNCHANGED <<jit, libud, iterations, i, out, cur, vm, jitted_fn,
                   jit_memory_buff, helpers_map, mem, elapsed,
                   load_program_duration, execution_duration, res, code, callUs,
                   builtAt, args>>

----------------------------------------------------------------------------
(* lib.rs 159-171: execution, compiled *)

\* 161-164: announce, then sleep for at least three seconds
JitAnnounce ==
    /\ pc = "jit_announce"
    /\ WriteLine(Text("Executing JITted code"))
    /\ \E d \in OpTimes : elapsed' = elapsed + SleepUs + d
    /\ pc' = "jit_call"
    /\ UNCHANGED <<jit, libud, iterations, i, vm, jitted_fn, jit_memory_buff,
                   helpers_map, mem, load_program_duration, execution_duration,
                   res, code, callUs, calls, builtAt, args, panic_msg>>

\* 166-168: jitted_fn.unwrap()(0 as *mut u8, 0, 0 as *mut u8, 0) == 1
JitCall ==
    /\ pc = "jit_call"
    /\ jitted_fn
    /\ Call("jitted_fn", jit_memory_buff)
    /\ args' = NullArgs
    /\ \E c \in Codes :
          /\ code' = c
          /\ res' = Correct(c)
    /\ \E d \in OpTimes :
          /\ callUs' = d
          /\ elapsed' = elapsed + d
    /\ pc' = "jit_done"
    /\ UNCHANGED <<jit, libud, iterations, i, out, cur, vm, jitted_fn,
                   jit_memory_buff, helpers_map, mem, load_program_duration,
                   execution_duration, builtAt, panic_msg>>

\* the call goes into memory that has been freed: it may also never return
JitFault ==
    /\ pc = "jit_call"
    /\ jitted_fn
    /\ ~jit_memory_buff
    /\ Call("jitted_fn", FALSE)
    /\ args' = NullArgs
    /\ pc' = "crashed"
    /\ UNCHANGED <<jit, libud, iterations, i, out, cur, vm, jitted_fn,
                   jit_memory_buff, helpers_map, mem, elapsed,
                   load_program_duration, execution_duration, res, code, callUs,
                   builtAt, panic_msg>>

\* 170
JitDone ==
    /\ pc = "jit_done"
    /\ WriteLine(Text("JITted code execution done."))
    /\ pc' = "exec_timed"
    /\ UNCHANGED <<jit, libud, iterations, i, vm, jitted_fn, jit_memory_buff,
                   helpers_map, mem, elapsed, load_program_duration,
                   execution_duration, res, code, callUs, calls, builtAt, args,
                   panic_msg>>

----------------------------------------------------------------------------
(* lib.rs 145-146, 173-177: the execution is timed; its duration and the   *)
(* flag are printed, which ends the line and the iteration                 *)

ExecTimed ==
    /\ pc = "exec_timed"
    /\ execution_duration' = elapsed
    /\ out' = Append(out, cur \o << Num(elapsed), Text(BoolToString(res)) >>)
    /\ cur' = <<>>
    /\ elapsed' = 0
    /\ i' = i + 1
    /\ pc' = "loop"
    /\ UNCHANGED <<jit, libud, iterations, vm, jitted_fn, jit_memory_buff,
                   helpers_map, mem, load_program_duration, res, code, callUs,
                   calls, builtAt, args, panic_msg>>

ExecClockFail ==
    /\ pc = "exec_timed"
    /\ Panic("failed to measure execution time")
    /\ UNCHANGED <<jit, libud, iterations, i, out, cur, vm, jitted_fn,
                   jit_memory_buff, helpers_map, mem, elapsed,
                   load_program_duration, execution_duration, res, code, callUs,
                   calls, builtAt, args>>

----------------------------------------------------------------------------
Next ==
    \/ ParseIterations
    \/ ParseFail
    \/ PrintBanner
    \/ LoopNext
    \/ LoopEnd
    \/ InterpNew
    \/ InterpNewFail
    \/ InterpRegister
    \/ InterpVerify
    \/ InterpVerifyFail
    \/ JitSetup
    \/ JitCompile
    \/ JitCompileFail
    \/ JitLoadEnd
    \/ LoadTimed
    \/ LoadClockFail
    \/ InterpExecute
    \/ InterpExecuteFail
    \/ JitAnnounce
    \/ JitCall
    \/ JitFault
    \/ JitDone
    \/ ExecTimed
    \/ ExecClockFail

Spec == Init /\ [][Next]_vars

----------------------------------------------------------------------------
(* The text written so far, as one stream of tokens *)

RECURSIVE Flatten(_)
Flatten(lines) == IF lines = <<>> THEN <<>> ELSE Head(lines) \o Flatten(Tail(lines))

Stream == Flatten(out) \o cur

IsNum(tok) == tok.k = "num"
IsBool(tok) == tok.k = "text" /\ tok.s \in {"true", "false"}

NumCount == Len(SelectSeq(Stream, IsNum))
BoolCount == Len(SelectSeq(Stream, IsBool))

\* a data line: index;0;load;execution;boolean
IsDataLine(line) ==
    /\ Len(line) = 5
    /\ \A k \in 1..4 : IsNum(line[k])
    /\ line[2].n = 0
    /\ IsBool(line[5])

PrepPcs == {"vm_new", "vm_register", "vm_verify", "jit_setup", "jit_compile",
            "jit_load_end", "load_timed"}
ExecPcs == {"vm_execute", "jit_announce", "jit_call", "jit_done", "exec_timed"}
PrepPanics == {"failed to load program", "program verification failed",
               "Failed jit compile", "failed to measure load program time"}
ExecPanics == {"programm execution failed", "failed to measure execution time"}
Halted == pc \in {"panicked", "crashed"}

----------------------------------------------------------------------------
(* C1: a run of N iterations that completes writes the header line and     *)
(* then exactly N data lines, whose index fields are 0, 1, ..., N-1, in    *)
(* the interpreted and in the compiled configuration.                      *)
C1_HeaderThenNDataLines ==
    pc = "done" =>
        /\ Len(out) = iterations + 3
        /\ out[1] = BeginLine
        /\ out[2] = HeaderLine
        /\ \A j \in 0..(iterations - 1) :
              IsDataLine(out[j + 3]) /\ out[j + 3][1].n = j
        /\ out[iterations + 3] = EndLine

(* C2: whenever the compiled path is about to call the jitted function,    *)
(* the buffer holding its code is still allocated.                         *)
C2_BufferLiveAtCall == pc = "jit_call" => jit_memory_buff

(* C3: the `correct` field written for an iteration is "true" exactly when *)
(* the result code the program returned is 1, and "false" for every other  *)
(* code, in both paths.                                                    *)
LastLine == out[Len(out)]
LastField == LastLine[Len(LastLine)]
C3_CorrectIffCodeIsOne ==
    (pc = "loop" /\ i > 0) =>
        /\ IsBool(LastField)
        /\ (LastField.s = "true") <=> (code = 1)
C3_Witness ==
    /\ pc = "loop"
    /\ i = 2
    /\ code = 2^16 - 1
    /\ LastField.s = "false"
    /\ out[Len(out) - 1] # <<>>

(* C4: after the begin marker the output consists only of the header line, *)
(* five-field data lines and, last, the end marker; the line being written *)
(* holds only numeric fields of a data line.                               *)
C4_OnlyProtocolLines ==
    /\ \A k \in 3..Len(out) :
          \/ IsDataLine(out[k])
          \/ (out[k] = EndLine /\ k = Len(out) /\ pc = "done")
    /\ Len(cur) <= 3
    /\ \A k \in 1..Len(cur) : IsNum(cur[k])

C6_NothingBeforeExecution ==
    (pc \in PrepPcs \cup ExecPcs \/ Halted) => NumCount = 4 * i

(* C6 amended: the index and the constant 0 are written before the          *)
(* preparation starts, the load duration after the preparation and before  *)
(* the execution, the execution duration and the flag only after the       *)
(* execution has returned; a run whose preparation fails has written the   *)
(* index and the 0 of that iteration and none of its other fields.         *)
FieldsOfCurrentIteration ==
    IF pc \in PrepPcs \/ (pc = "panicked" /\ panic_msg \in PrepPanics) THEN 2
    ELSE IF pc \in ExecPcs \/ pc = "crashed"
            \/ (pc = "panicked" /\ panic_msg \in ExecPanics) THEN 3
    ELSE 0
C6_FieldsStreamedInSteps ==
    /\ NumCount = 4 * i + FieldsOfCurrentIteration
    /\ BoolCount = i
    /\ FieldsOfCurrentIteration >= 2 =>
          /\ SelectSeq(Stream, IsNum)[4 * i + 1] = Num(i)
          /\ SelectSeq(Stream, IsNum)[4 * i + 2] = Num(0)
C6_Witness ==
    /\ pc = "panicked"
    /\ panic_msg = "Failed jit compile"
    /\ i = 0
    /\ NumCount = 2
    /\ BoolCount = 0

(* C7: in the compiled path the recorded execution duration is the duration *)
(* of the program call alone; the sleep is not part of it.                 *)
C7_ExecutionTimeIsCallTime ==
    (jit /\ pc = "loop" /\ i > 0) => execution_duration = callUs

(* C8: in the interpreted path the engine is called, within an iteration,  *)
(* in the order new, register_all, verify_loaded_program, execute_program, *)
(* each at most once, each only after the ones before it succeeded; a     *)
(* program about to be executed is loaded, has all helpers registered and  *)
(* has passed verification.                                                *)
InterpOrder == << "new", "register_all", "verify_loaded_program", "execute_program" >>
C8_VerifiedBeforeExecuted ==
    ~jit =>
        /\ Len(calls) <= 4
        /\ \A k \in 1..Len(calls) :
              /\ calls[k].op = InterpOrder[k]
              /\ calls[k].ok \/ (k = Len(calls) /\ pc = "panicked")
        /\ pc = "vm_execute" =>
              /\ Len(calls) = 3
              /\ vm.some
              /\ vm.verified
              /\ vm.helpers = InsertAll({}, ALL_HELPERS)
C8_Witness ==
    /\ ~jit
    /\ i = 1
    /\ pc = "exec_timed"
    /\ Len(calls) = 4
    /\ calls[4].op = "execute_program"

(* C9 as stated: the helper mapping every iteration uses was built once,   *)
(* before the first iteration, and no iteration builds one.                *)
C9_BuiltOnceBeforeLoop ==
    (pc \in PrepPcs \cup ExecPcs) =>
        /\ helpers_map = InsertAll({}, ALL_HELPERS)
        /\ builtAt = <<>>

(* C9 amended: the compiled path builds the mapping anew in every          *)
(* iteration, inside the timed preparation step, always with the content   *)
(* of the static list ALL_HELPERS; the mapping exists unchanged until the  *)
(* preparation step ends and is dropped there.  The interpreted path       *)
(* builds no mapping; it registers the helpers into each iteration's VM.   *)
MapLive == \/ pc \in {"jit_compile", "jit_load_end"}
           \/ (pc = "panicked" /\ panic_msg = "Failed jit compile")
BuiltInThisIteration ==
    \/ pc \in (PrepPcs \cup ExecPcs) \ {"jit_setup"}
    \/ pc = "crashed"
    \/ (pc = "panicked" /\ panic_msg \in PrepPanics \cup ExecPanics)
C9_BuiltInEveryPreparation ==
    /\ jit =>
          /\ Len(builtAt) = i + (IF BuiltInThisIteration THEN 1 ELSE 0)
          /\ \A k \in 1..Len(builtAt) : builtAt[k] = k - 1
          /\ helpers_map = (IF MapLive THEN InsertAll({}, ALL_HELPERS) ELSE {})
    /\ ~jit =>
          /\ builtAt = <<>>
          /\ helpers_map = {}
          /\ vm.verified => vm.helpers = InsertAll({}, ALL_HELPERS)
C9_Witness ==
    /\ jit
    /\ pc = "jit_compile"
    /\ i = 1
    /\ builtAt = << 0, 1 >>
    /\ helpers_map = {<<1, "bpf_printf">>, <<2, "bpf_store_global">>,
                      <<3, "bpf_fetch_global">>}

(* C10: the jitted function is called with the address and byte size of    *)
(* the memory context when one is configured (libud), and with a null      *)
(* pointer and length 0 only when none is.                                 *)
C10_ArgsFromContext ==
    (jit /\ pc = "jit_done") =>
        /\ args.mem_ptr = (IF libud THEN "ctx" ELSE "null")
        /\ args.mem_len = (IF libud THEN ContextSize ELSE 0)

====
